---- MODULE Spec2Model ----
(***************************************************************************)
(* A model of Intune_CSV_consolidator.py: the CsvConsolidator pipeline     *)
(* (findCsvFiles, readCsvFile, consolidateFiles, checkDuplicates,          *)
(* exportResults, run).                                                     *)
(*                                                                         *)
(* Strings are sequences of one-character strings, so that the ordinal     *)
(* comparison Python's sorted() makes can be computed character by         *)
(* character.  Python values that a row can hold are tagged records: a     *)
(* str, None, or a list of str.                                            *)
(*                                                                         *)
(* A file is modelled by what the standard library hands to the program:   *)
(* open()/read() raising, content.strip() being empty, or the records that *)
(* csv.reader yields for the text under the dialect chosen for the file.   *)
(* Presentation (banner, colours, progress bar, prompts' text) and the     *)
(* output file's name (company name, timestamp) are left out.              *)
(***************************************************************************)
EXTENDS Integers, Sequences, FiniteSets, TLC

VARIABLES
    tree,                   \* the source directory: a set of [path, file]
    includeSubdirectories,  \* self.includeSubdirectories
    csvFiles,               \* self.csvFiles: sequence of paths
    index,                  \* number of files the loop of consolidateFiles has handled
    data, headers, success, \* the locals of consolidateFiles set by readCsvFile
    consolidatedData,       \* self.consolidatedData
    allHeaders,             \* self.allHeaders
    processedCount,         \* self.processedCount
    errorCount,             \* self.errorCount
    errorFiles,             \* self.errorFiles
    duplicateCount,         \* the local of run set by checkDuplicates
    outputFile,             \* the file exportResults writes
    pc,                     \* position in run
    outcome                 \* how run ended

vars == <<tree, includeSubdirectories, csvFiles, index, data, headers, success,
          consolidatedData, allHeaders, processedCount, errorCount, errorFiles,
          duplicateCount, outputFile, pc, outcome>>

---------------------------------------------------------------------------
(* Strings and Python values *)

Min(a, b) == IF a <= b THEN a ELSE b

Max(S) == CHOOSE m \in S : \A n \in S : n <= m

\* ord(c) for the characters the model uses
ord(c) ==
    CASE c = " " -> 32 [] c = "-" -> 45 [] c = "." -> 46 [] c = "/" -> 47
      [] c = "0" -> 48 [] c = "1" -> 49 [] c = "2" -> 50 [] c = "3" -> 51
      [] c = "4" -> 52 [] c = "5" -> 53 [] c = "6" -> 54 [] c = "7" -> 55
      [] c = "8" -> 56 [] c = "9" -> 57
      [] c = "A" -> 65 [] c = "B" -> 66 [] c = "C" -> 67 [] c = "D" -> 68
      [] c = "M" -> 77 [] c = "N" -> 78 [] c = "S" -> 83 [] c = "V" -> 86
      [] c = "X" -> 88 [] c = "Y" -> 89
      [] c = "a" -> 97 [] c = "b" -> 98 [] c = "c" -> 99 [] c = "d" -> 100
      [] c = "e" -> 101 [] c = "f" -> 102 [] c = "h" -> 104 [] c = "i" -> 105 [] c = "l" -> 108 [] c = "m" -> 109
      [] c = "n" -> 110 [] c = "o" -> 111 [] c = "r" -> 114 [] c = "s" -> 115
      [] c = "t" -> 116 [] c = "u" -> 117 [] c = "v" -> 118 [] c = "x" -> 120

\* s < t for two str, as Python compares them: by code point, a proper prefix first
RECURSIVE StrLess(_, _)
StrLess(s, t) ==
    IF t = <<>> THEN FALSE
    ELSE IF s = <<>> THEN TRUE
    ELSE IF ord(Head(s)) # ord(Head(t)) THEN ord(Head(s)) < ord(Head(t))
    ELSE StrLess(Tail(s), Tail(t))

\* mutant of sorted: descending order
RECURSIVE sortedDescending(_)
sortedDescending(S) ==
    IF S = {} THEN <<>>
    ELSE LET m == CHOOSE a \in S : \A b \in S \ {a} : StrLess(b, a)
         IN  <<m>> \o sortedDescending(S \ {m})

\* sorted(S) for a set of str
RECURSIVE sorted(_)
sorted(S) ==
    IF S = {} THEN <<>>
    ELSE LET m == CHOOSE a \in S : \A b \in S \ {a} : StrLess(a, b)
         IN  <<m>> \o sorted(S \ {m})

Digit(d) == <<"0", "1", "2", "3", "4", "5", "6", "7", "8", "9">>[d + 1]

\* str(n) for n >= 0
RECURSIVE str(_)
str(n) == IF n < 10 THEN <<Digit(n)>> ELSE str(n \div 10) \o <<Digit(n % 10)>>

PyStr(s) == [t |-> "str", s |-> s, l |-> <<>>]
PyNone == [t |-> "None", s |-> <<>>, l |-> <<>>]
PyList(l) == [t |-> "list", s |-> <<>>, l |-> l]

\* bool(v) of a value a row holds
Truthy(v) ==
    CASE v.t = "str" -> v.s # <<>>
      [] v.t = "None" -> FALSE
      [] v.t = "list" -> v.l # <<>>

\* the key None, which is no str: csv.DictReader's restkey
restkey == <<"<None>">>

\* csv.DictReader's restval
restval == PyNone

Map(s, F(_)) == [i \in 1..Len(s) |-> F(s[i])]

---------------------------------------------------------------------------
(* readCsvFile *)

\* A file: open() or the parse raises, or the text is empty or whitespace
\* only, or csv.reader yields `rows` for it.
RaisingFile == [kind |-> "raises", rows |-> <<>>]
BlankFile == [kind |-> "blank", rows |-> <<>>]
TextFile(rows) == [kind |-> "text", rows |-> rows]

\* csv.DictReader.__next__: one non-blank record as a dict keyed by fieldnames
DictRow(fieldnames, row) ==
    LET lf == Len(fieldnames)
        lr == Len(row)
        zipped == {fieldnames[j] : j \in 1..Min(lf, lr)}
        missing == {fieldnames[j] : j \in (lr + 1)..lf}
        rest == IF lf < lr THEN {restkey} ELSE {}
    IN  [k \in zipped \cup missing \cup rest |->
            IF k \in rest THEN PyList(SubSeq(row, lf + 1, lr))
            ELSE IF k \in missing THEN restval
            ELSE PyStr(row[Max({j \in 1..Min(lf, lr) : fieldnames[j] = k})])]

\* list(csv.DictReader(...)) once fieldnames has consumed the first record
DictReaderRows(rows) ==
    LET fieldnames == Head(rows)
        IsRecord(r) == r # <<>>
        DictOf(r) == DictRow(fieldnames, r)
    IN  Map(SelectSeq(Tail(rows), IsRecord), DictOf)

\* headers = [f"Column{i+1}" for i in range(numColumns)]
ColumnName(i) == <<"C", "o", "l", "u", "m", "n">> \o str(i)

\* mutant of GenericHeaders: the columns are numbered from 0
GenericHeadersFromZero(numColumns) == [i \in 1..numColumns |-> ColumnName(i - 1)]

GenericHeaders(numColumns) == [i \in 1..numColumns |-> ColumnName(i)]

\* the headerless conversion (lines 353-367 and 376-390)
Headerless(rows) ==
    IF rows # <<>>
    THEN LET numColumns == Len(rows[1])
             hdrs == GenericHeaders(numColumns)
             IsRecord(r) == r # <<>>
             rowDict(row) ==
                 [k \in {hdrs[i] : i \in 1..Min(Len(row), numColumns)} |->
                     PyStr(row[CHOOSE i \in 1..Min(Len(row), numColumns) : hdrs[i] = k])]
         IN  [data |-> Map(SelectSeq(rows, IsRecord), rowDict),
              headers |-> hdrs, success |-> TRUE]
    ELSE [data |-> <<>>, headers |-> <<>>, success |-> FALSE]

readCsvFile(file) ==
    IF file.kind = "raises" THEN [data |-> <<>>, headers |-> <<>>, success |-> FALSE]
    ELSE IF file.kind = "blank" THEN [data |-> <<>>, headers |-> <<>>, success |-> FALSE]
    ELSE LET rows == file.rows
             hasFieldnames == rows # <<>> /\ Head(rows) # <<>>
         IN  IF hasFieldnames /\ DictReaderRows(rows) # <<>>
             THEN [data |-> DictReaderRows(rows), headers |-> Head(rows),
                   success |-> TRUE]
             ELSE Headerless(rows)

---------------------------------------------------------------------------
(* findCsvFiles *)

\* A path below sourceDirectory is the sequence of its components; the tree
\* holds one entry per path that exists there.
FileAt(path) == (CHOOSE e \in tree : e.path = path).file

EndsWith(name, suffix) ==
    /\ Len(name) >= Len(suffix)
    /\ SubSeq(name, Len(name) - Len(suffix) + 1, Len(name)) = suffix

\* glob's "*" and "**" match no name that starts with a dot
IsHidden(name) == name # <<>> /\ Head(name) = "."

\* the pattern "*.csv" on one name
MatchesCsv(name) == ~IsHidden(name) /\ EndsWith(name, <<".", "c", "s", "v">>)

\* glob.glob(pattern) of lines 285-290
Glob(recursive) ==
    {e.path : e \in {x \in tree :
        /\ MatchesCsv(x.path[Len(x.path)])
        /\ IF recursive
           THEN \A i \in 1..(Len(x.path) - 1) : ~IsHidden(x.path[i])
           ELSE Len(x.path) = 1}}

\* Path.__lt__: the paths' components are compared one by one
RECURSIVE PathLess(_, _)
PathLess(p, q) ==
    IF q = <<>> THEN FALSE
    ELSE IF p = <<>> THEN TRUE
    ELSE IF Head(p) # Head(q) THEN StrLess(Head(p), Head(q))
    ELSE PathLess(Tail(p), Tail(q))

\* mutant of sortedPaths: descending order
RECURSIVE sortedPathsDescending(_)
sortedPathsDescending(S) ==
    IF S = {} THEN <<>>
    ELSE LET m == CHOOSE a \in S : \A b \in S \ {a} : PathLess(b, a)
         IN  <<m>> \o sortedPathsDescending(S \ {m})

\* sorted(self.csvFiles)
RECURSIVE sortedPaths(_)
sortedPaths(S) ==
    IF S = {} THEN <<>>
    ELSE LET m == CHOOSE a \in S : \A b \in S \ {a} : PathLess(a, b)
         IN  <<m>> \o sortedPaths(S \ {m})

\* Path.name
PathName(path) == path[Len(path)]

---------------------------------------------------------------------------
(* checkDuplicates *)

DeviceSerialNumberSp ==
    <<"D", "e", "v", "i", "c", "e", " ", "S", "e", "r", "i", "a", "l", " ",
      "N", "u", "m", "b", "e", "r">>
SerialNumberSp ==
    <<"S", "e", "r", "i", "a", "l", " ", "N", "u", "m", "b", "e", "r">>
DeviceSerialNumber ==
    <<"D", "e", "v", "i", "c", "e", "S", "e", "r", "i", "a", "l",
      "N", "u", "m", "b", "e", "r">>

\* row.get(key): None when the key is absent
Get(row, key) == IF key \in DOMAIN row THEN row[key] ELSE PyNone

\* a or b, as Python evaluates it
Or(a, b) == IF Truthy(a) THEN a ELSE b

\* lines 452-454
SerialOf(row) ==
    Or(Or(Get(row, DeviceSerialNumberSp), Get(row, SerialNumberSp)),
       Get(row, DeviceSerialNumber))

\* the list serialNumbers of lines 448-456
serialNumbers(rows) ==
    LET HasSerial(row) == Truthy(SerialOf(row))
    IN  Map(SelectSeq(rows, HasSerial), SerialOf)

RECURSIVE SumOver(_, _)
SumOver(S, f) ==
    IF S = {} THEN 0
    ELSE LET x == CHOOSE y \in S : TRUE IN f[x] + SumOver(S \ {x}, f)

\* Counter(serialNumbers)
Counter(sn) ==
    [k \in {sn[i] : i \in 1..Len(sn)} |-> Cardinality({i \in 1..Len(sn) : sn[i] = k})]

\* mutant of checkDuplicates: the number of identifiers that occur twice or more
countDuplicateGroups(rows) ==
    LET sn == serialNumbers(rows)
        counter == Counter(sn)
    IN  Cardinality({k \in DOMAIN counter : counter[k] > 1})

checkDuplicates(rows) ==
    LET sn == serialNumbers(rows)
        counter == Counter(sn)
        duplicates == {k \in DOMAIN counter : counter[k] > 1}
    IN  IF sn # <<>>
        THEN SumOver(duplicates, counter) - Cardinality(duplicates)
        ELSE 0

---------------------------------------------------------------------------
(* exportResults *)

NoFile == [exists |-> FALSE, header |-> <<>>, lines |-> <<>>]

\* the cell the csv writer writes for a value: None is written as ""
CellText(v) == IF v.t = "str" THEN v.s ELSE <<>>

\* csv.DictWriter._dict_to_list: a key outside fieldnames raises ValueError
WrongFields(row, fieldnames) ==
    DOMAIN row \ {fieldnames[i] : i \in 1..Len(fieldnames)}

\* (rowdict.get(key, self.restval) for key in self.fieldnames), restval ""
DictToList(row, fieldnames) ==
    [i \in 1..Len(fieldnames) |->
        IF fieldnames[i] \in DOMAIN row THEN CellText(row[fieldnames[i]]) ELSE <<>>]

\* the number of leading rows writerows writes before one raises
RECURSIVE GoodPrefix(_, _)
GoodPrefix(rows, fieldnames) ==
    IF rows = <<>> \/ WrongFields(Head(rows), fieldnames) # {} THEN 0
    ELSE 1 + GoodPrefix(Tail(rows), fieldnames)

\* The file that lines 486-489 leave behind and whether they raised, when
\* the file system lets `written` of the rows through (open() raising
\* writes nothing: written = -1).
WriteCsv(rows, columns, written) ==
    LET fieldnames == sorted(columns)
        good == GoodPrefix(rows, fieldnames)
        n == Min(good, written)
    IN  IF written < 0 THEN [file |-> NoFile, raised |-> TRUE]
        ELSE [file |-> [exists |-> TRUE, header |-> fieldnames,
                        lines |-> [i \in 1..n |-> DictToList(rows[i], fieldnames)]],
              raised |-> n < Len(rows)]

---------------------------------------------------------------------------
(* The inputs: every source directory of at most MaxInputSize units, where a
   file costs one unit, each of its records one more, and each cell one more *)

MaxInputSize == 7

Cells == {<<"A">>, <<"B">>}

\* the records of `cells` cells
RowsOfSize(cells) == [1..cells -> Cells]

\* the sequences of records that cost `size` units together
RECURSIVE RowSeqsOfSize(_)
RowSeqsOfSize(size) ==
    IF size = 0 THEN {<<>>}
    ELSE UNION {{<<r>> \o rest : r \in RowsOfSize(k), rest \in RowSeqsOfSize(size - k - 1)}
                : k \in 0..(size - 1)}

\* Text that is not whitespace only has a record with a cell in it.
FilesOfSize(size) ==
    (IF size = 1 THEN {RaisingFile, BlankFile} ELSE {})
    \cup {TextFile(rows) : rows \in {rs \in RowSeqsOfSize(size - 1) :
                                        \E i \in 1..Len(rs) : rs[i] # <<>>}}

RECURSIVE FileListsOfSize(_)
FileListsOfSize(size) ==
    IF size = 0 THEN {<<>>}
    ELSE UNION {{<<f>> \o rest : f \in FilesOfSize(k), rest \in FileListsOfSize(size - k)}
                : k \in 1..size}

\* where the i-th file of the directory lives: every third one in "sub"
PoolPath(i) ==
    LET name == <<"f">> \o str(i) \o <<".", "c", "s", "v">>
    IN  IF i % 3 = 0 THEN <<<<"s", "u", "b">>, name>> ELSE <<name>>

TreeOf(files) == {[path |-> PoolPath(i), file |-> files[i]] : i \in 1..Len(files)}

---------------------------------------------------------------------------
(* run *)

\* __init__ (lines 111-121) and getUserInputs
StartOfRun ==
    /\ csvFiles = <<>>
    /\ index = 0
    /\ data = <<>>
    /\ headers = <<>>
    /\ success = FALSE
    /\ consolidatedData = <<>>
    /\ allHeaders = {}
    /\ processedCount = 0
    /\ errorCount = 0
    /\ errorFiles = <<>>
    /\ duplicateCount = 0
    /\ outputFile = NoFile
    /\ pc = "findCsvFiles"
    /\ outcome = "running"

Init ==
    /\ \E size \in 0..MaxInputSize : \E files \in FileListsOfSize(size) :
           tree = TreeOf(files)
    /\ includeSubdirectories \in BOOLEAN
    /\ StartOfRun

\* lines 548-550 with findCsvFiles
FindCsvFiles ==
    /\ pc = "findCsvFiles"
    /\ csvFiles' = sortedPaths(Glob(includeSubdirectories))
    /\ IF csvFiles' = <<>>
       THEN pc' = "done" /\ outcome' = "DiscoveryEmpty"
       ELSE pc' = "confirm" /\ outcome' = outcome
    /\ UNCHANGED <<tree, includeSubdirectories, index, data, headers, success,
                   consolidatedData, allHeaders, processedCount, errorCount,
                   errorFiles, duplicateCount, outputFile>>

\* lines 556-559: getYesNoInput("Continue?")
Confirm ==
    /\ pc = "confirm"
    /\ \E yes \in BOOLEAN :
           IF yes
           THEN pc' = "consolidateFiles" /\ outcome' = outcome
           ELSE pc' = "done" /\ outcome' = "UserCancelled"
    /\ UNCHANGED <<tree, includeSubdirectories, csvFiles, index, data, headers,
                   success, consolidatedData, allHeaders, processedCount,
                   errorCount, errorFiles, duplicateCount, outputFile>>

\* mutant of Extend: the new rows are put in front
ExtendFront(list, items) == items \o list

\* consolidatedData.extend(data)
Extend(list, items) == list \o items

\* mutant of Update: the set is assigned instead of updated
UpdateReplace(set, list) == {list[i] : i \in 1..Len(list)}

\* allHeaders.update(headers)
Update(set, list) == set \cup {list[i] : i \in 1..Len(list)}

\* mutant of Ingested: the outcome of the read is not looked at
IngestedAlways(read) == TRUE

\* mutant of Ingested: the test is inverted
IngestedInverted(read) == ~(read.success /\ read.data # <<>>)

\* the test of line 420: success and data
Ingested(read) == read.success /\ read.data # <<>>

\* mutant of LoopDone: the loop is left after its first file
LoopDoneEarly(i, files) == i >= 1 \/ i = Len(files)

\* the for loop of line 412 has run out of files
LoopDone(i, files) == i = Len(files)

\* mutant of HasData: consolidateFiles returns True whatever it read
HasDataAlways(rows) == TRUE

\* the value consolidateFiles returns (line 439)
HasData(rows) == Len(rows) > 0

\* one iteration of the loop of consolidateFiles (lines 412-426)
ConsolidateFile ==
    /\ pc = "consolidateFiles"
    /\ ~LoopDone(index, csvFiles)
    /\ LET csvFile == csvFiles[index + 1]
           read == readCsvFile(FileAt(csvFile))
       IN  /\ data' = read.data
           /\ headers' = read.headers
           /\ success' = read.success
           /\ IF Ingested(read)
              THEN /\ consolidatedData' = Extend(consolidatedData, read.data)
                   /\ allHeaders' = Update(allHeaders, read.headers)
                   /\ processedCount' = processedCount + 1
                   /\ UNCHANGED <<errorCount, errorFiles>>
              ELSE /\ errorCount' = errorCount + 1
                   /\ errorFiles' = Append(errorFiles, PathName(csvFile))
                   /\ UNCHANGED <<consolidatedData, allHeaders, processedCount>>
    /\ index' = index + 1
    /\ UNCHANGED <<tree, includeSubdirectories, csvFiles, duplicateCount,
                   outputFile, pc, outcome>>

\* the end of consolidateFiles (line 439) and lines 562-565
ConsolidateReturn ==
    /\ pc = "consolidateFiles"
    /\ LoopDone(index, csvFiles)
    /\ IF HasData(consolidatedData)
       THEN pc' = "checkDuplicates" /\ outcome' = outcome
       ELSE pc' = "done" /\ outcome' = "NoValidData"
    /\ UNCHANGED <<tree, includeSubdirectories, csvFiles, index, data, headers,
                   success, consolidatedData, allHeaders, processedCount,
                   errorCount, errorFiles, duplicateCount, outputFile>>

\* lines 568-570
CheckDuplicates ==
    /\ pc = "checkDuplicates"
    /\ duplicateCount' = checkDuplicates(consolidatedData)
    /\ pc' = "exportResults"
    /\ UNCHANGED <<tree, includeSubdirectories, csvFiles, index, data, headers,
                   success, consolidatedData, allHeaders, processedCount,
                   errorCount, errorFiles, outputFile, outcome>>

\* lines 574-579 with exportResults: the file system lets `written` rows
\* through (-1: open() raises)
ExportResults ==
    /\ pc = "exportResults"
    /\ \E written \in (-1)..Len(consolidatedData) :
           LET w == WriteCsv(consolidatedData, allHeaders, written)
           IN  /\ outputFile' = w.file
               /\ outcome' = IF w.raised THEN "ExportFailure" ELSE "Exported"
    /\ pc' = "done"
    /\ UNCHANGED <<tree, includeSubdirectories, csvFiles, index, data, headers,
                   success, consolidatedData, allHeaders, processedCount,
                   errorCount, errorFiles, duplicateCount>>

\* lines 585-589: Ctrl-C at any point of run
KeyboardInterrupt ==
    /\ pc # "done"
    /\ pc' = "done"
    /\ outcome' = "Interrupted"
    /\ UNCHANGED <<tree, includeSubdirectories, csvFiles, index, data, headers,
                   success, consolidatedData, allHeaders, processedCount,
                   errorCount, errorFiles, duplicateCount, outputFile>>

Next ==
    \/ FindCsvFiles
    \/ Confirm
    \/ ConsolidateFile
    \/ ConsolidateReturn
    \/ CheckDuplicates
    \/ ExportResults
    \/ KeyboardInterrupt

Spec == Init /\ [][Next]_vars

---------------------------------------------------------------------------
(* The inputs of SpecSerial: directories of files that carry the device
   identifier columns, of at most MaxSerialSize cells (header and data)
   together *)

MaxSerialSize == 5

SerialKeys == <<DeviceSerialNumberSp, SerialNumberSp, DeviceSerialNumber>>

\* the header rows: the non-empty selections of the identifier columns
SerialHeaders ==
    LET Pick(S) == SelectSeq(SerialKeys, LAMBDA k : k \in S)
    IN  {Pick(S) : S \in (SUBSET {SerialKeys[i] : i \in 1..3}) \ {{}}}

SerialValues == {<<>>, <<"X">>, <<"Y">>}

\* the sequences of data records of 1..width cells that hold `size` cells together
RECURSIVE SerialRowSeqs(_, _)
SerialRowSeqs(width, size) ==
    IF size = 0 THEN {<<>>}
    ELSE UNION {{<<r>> \o rest : r \in [1..k -> SerialValues],
                                 rest \in SerialRowSeqs(width, size - k)}
                : k \in 1..Min(width, size)}

SerialFilesOfSize(size) ==
    UNION {{TextFile(<<h>> \o rs) : rs \in SerialRowSeqs(Len(h), size - Len(h))}
           : h \in {x \in SerialHeaders : Len(x) < size}}

RECURSIVE SerialFileListsOfSize(_)
SerialFileListsOfSize(size) ==
    IF size = 0 THEN {<<>>}
    ELSE UNION {{<<f>> \o rest : f \in SerialFilesOfSize(k),
                                 rest \in SerialFileListsOfSize(size - k)}
                : k \in 1..size}

InitSerial ==
    /\ \E size \in 0..MaxSerialSize : \E files \in SerialFileListsOfSize(size) :
           tree = TreeOf(files)
    /\ includeSubdirectories = TRUE
    /\ StartOfRun

SpecSerial == InitSerial /\ [][Next]_vars

---------------------------------------------------------------------------
(* The inputs of SpecDiscovery: directory trees whose files' paths have at
   most MaxTreeSize components together.  Every file holds the one line "A". *)

MaxTreeSize == 4

\* names of subdirectories: a plain one and a hidden one
DirNames == {<<"a">>, <<".", "h">>}

\* names of files: two that "*.csv" matches, a hidden one and another extension
FileNames ==
    {<<"a", ".", "c", "s", "v">>, <<"b", ".", "c", "s", "v">>,
     <<".", "c", ".", "c", "s", "v">>, <<"b", ".", "t", "x", "t">>}

\* the paths of `len` components
PathsOfLen(len) == {dirs \o <<name>> : dirs \in [1..(len - 1) -> DirNames], name \in FileNames}

\* the sets of paths that have `size` components together, or fewer
RECURSIVE PathSetsOfSize(_)
PathSetsOfSize(size) ==
    IF size = 0 THEN {{}}
    ELSE UNION {{{p} \cup rest : p \in PathsOfLen(k), rest \in PathSetsOfSize(size - k)}
                : k \in 1..size}

InitDiscovery ==
    /\ \E size \in 0..MaxTreeSize : \E paths \in PathSetsOfSize(size) :
           tree = {[path |-> p, file |-> TextFile(<<<<<<"A">>>>>>)] : p \in paths}
    /\ includeSubdirectories \in BOOLEAN
    /\ StartOfRun

SpecDiscovery == InitDiscovery /\ [][Next]_vars

---------------------------------------------------------------------------
(* Properties *)

\* the concatenation of a sequence of sequences
RECURSIVE Concat(_)
Concat(ss) == IF ss = <<>> THEN <<>> ELSE Head(ss) \o Concat(Tail(ss))

\* what readCsvFile returns for the i-th discovered file
ReadOf(i) == readCsvFile(FileAt(csvFiles[i]))

\* the i-th discovered file was ingested: it was read with success and has rows
IngestedFile(i) == ReadOf(i).success /\ ReadOf(i).data # <<>>

\* the loop of consolidateFiles has handled every discovered file
AggregationComplete ==
    \/ pc \in {"checkDuplicates", "exportResults"}
    \/ outcome \in {"NoValidData", "Exported", "ExportFailure"}

\* C1: the consolidated rows are the concatenation, in discovery order, of the
\* rows readCsvFile returned for the ingested files among those handled so
\* far, so that their number is the sum of those files' row counts.
C1_RowsAreConcatenation ==
    consolidatedData =
        Concat([i \in 1..index |-> IF IngestedFile(i) THEN ReadOf(i).data ELSE <<>>])

\* C1 witness: the loop is over, two files contributed rows and one failed
C1_Witness ==
    /\ pc = "checkDuplicates"
    /\ processedCount >= 2
    /\ errorCount >= 1
    /\ Len(consolidatedData) >= 2

\* C2: allHeaders is the union of the column lists returned for the ingested
\* files among those handled so far; a failed file contributes no column.
C2_HeadersAreUnion ==
    allHeaders =
        UNION {{ReadOf(i).headers[j] : j \in 1..Len(ReadOf(i).headers)}
               : i \in {k \in 1..index : IngestedFile(k)}}

\* C2 witness: two files were ingested and the last one brought only some of
\* the columns
C2_Witness ==
    /\ pc = "checkDuplicates"
    /\ processedCount >= 2
    /\ Cardinality(allHeaders) >= 2
    /\ {headers[j] : j \in 1..Len(headers)} # allHeaders
    /\ headers # <<>>

\* C3: once aggregation is complete, every key of every consolidated row is
\* in allHeaders.
C3_RowKeysWithinColumnSet ==
    AggregationComplete =>
        \A i \in 1..Len(consolidatedData) : DOMAIN consolidatedData[i] \subseteq allHeaders

\* the records after the first one that are not blank lines
DataRowsOf(file) == SelectSeq(Tail(file.rows), LAMBDA r : r # <<>>)

\* a file with a header row of distinct names and at least one data row
HasHeaderAndData(file) ==
    /\ file.kind = "text"
    /\ file.rows # <<>>
    /\ Head(file.rows) # <<>>
    /\ \A i, j \in 1..Len(Head(file.rows)) :
           Head(file.rows)[i] = Head(file.rows)[j] => i = j
    /\ DataRowsOf(file) # <<>>

\* C4: for the file just read, when it has a header row (stated for distinct
\* names, where the mapping is well defined) and at least one data row:
\* success, the column list is the header, and the i-th row maps header[j] to
\* the j-th value of the i-th data row for j up to the shorter of the two
\* widths, with no other key.
C4_RowsKeyedByHeader ==
    (index >= 1 /\ HasHeaderAndData(FileAt(csvFiles[index]))) =>
        LET file == FileAt(csvFiles[index])
            header == Head(file.rows)
            rows == DataRowsOf(file)
        IN  /\ success
            /\ headers = header
            /\ Len(data) = Len(rows)
            /\ \A i \in 1..Len(rows) :
                   LET width == Min(Len(rows[i]), Len(header))
                   IN  /\ DOMAIN data[i] = {header[j] : j \in 1..width}
                       /\ \A j \in 1..width : data[i][header[j]] = PyStr(rows[i][j])

\* "Column1" .. "Column9", written out
ColumnN(j) ==
    <<"C", "o", "l", "u", "m", "n">> \o <<(<<"1", "2", "3", "4", "5", "6", "7", "8", "9">>)[j]>>

\* a file whose first record has cells and whose other records are blank lines
IsHeaderOnly(file) ==
    /\ file.kind = "text"
    /\ file.rows # <<>>
    /\ Head(file.rows) # <<>>
    /\ \A i \in 2..Len(file.rows) : file.rows[i] = <<>>

\* C5: for the file just read, when it holds a single line of N values:
\* success, the column list is Column1..ColumnN, and there is exactly one row,
\* which maps Column1..ColumnN to the N values of the line.
C5_HeaderOnlyIsOneRow ==
    (index >= 1 /\ IsHeaderOnly(FileAt(csvFiles[index]))) =>
        LET line == Head(FileAt(csvFiles[index]).rows)
        IN  /\ success
            /\ headers = [j \in 1..Len(line) |-> ColumnN(j)]
            /\ Len(data) = 1
            /\ DOMAIN data[1] = {ColumnN(j) : j \in 1..Len(line)}
            /\ \A j \in 1..Len(line) : data[1][ColumnN(j)] = PyStr(line[j])

\* C5 witness: a file of one line of two values, with a blank line after it,
\* has been read
C5_Witness ==
    /\ index >= 1
    /\ IsHeaderOnly(FileAt(csvFiles[index]))
    /\ Len(Head(FileAt(csvFiles[index]).rows)) >= 2
    /\ Len(FileAt(csvFiles[index]).rows) >= 2
    /\ Len(data) = 1

\* the identifier of a row: the first non-empty value among the three keys,
\* as a sequence of no or one str
IdentifierOf(row) ==
    LET NonEmpty(k) == k \in DOMAIN row /\ row[k].t = "str" /\ row[k].s # <<>>
    IN  IF NonEmpty(DeviceSerialNumberSp) THEN <<row[DeviceSerialNumberSp].s>>
        ELSE IF NonEmpty(SerialNumberSp) THEN <<row[SerialNumberSp].s>>
        ELSE IF NonEmpty(DeviceSerialNumber) THEN <<row[DeviceSerialNumber].s>>
        ELSE <<>>

\* (sum of the occurrence counts of the identifiers that occur at least
\* twice) - (number of such identifiers)
ExcessOccurrences(rows) ==
    LET carriers == {i \in 1..Len(rows) : IdentifierOf(rows[i]) # <<>>}
        Twice(i) == \E j \in carriers : j # i /\ IdentifierOf(rows[j]) = IdentifierOf(rows[i])
        repeated == {i \in carriers : Twice(i)}
    IN  Cardinality(repeated) - Cardinality({IdentifierOf(rows[i]) : i \in repeated})

\* checkDuplicates has run
DuplicatesChecked == pc = "exportResults" \/ outcome \in {"Exported", "ExportFailure"}

\* C6: the count checkDuplicates returns is the number of excess occurrences
\* of the rows' identifiers.
C6_DuplicateCount ==
    DuplicatesChecked => duplicateCount = ExcessOccurrences(consolidatedData)

\* C6 witness: a duplicate was counted where one row takes its identifier from
\* a lower-priority key because the higher one is present and empty
C6_Witness ==
    /\ pc = "exportResults"
    /\ duplicateCount >= 1
    /\ \E i \in 1..Len(consolidatedData) :
           LET row == consolidatedData[i]
           IN  /\ DeviceSerialNumberSp \in DOMAIN row
               /\ ~Truthy(row[DeviceSerialNumberSp])
               /\ IdentifierOf(row) # <<>>

\* the text of a row's value for a column: empty when the row has no value there
ValueText(row, column) ==
    IF column \in DOMAIN row /\ row[column].t = "str" THEN row[column].s ELSE <<>>

\* every key of every consolidated row is in allHeaders
KeysWithinColumnSet ==
    \A i \in 1..Len(consolidatedData) : DOMAIN consolidatedData[i] \subseteq allHeaders

\* C7: with the rows' keys within allHeaders, an export fails only when the
\* file system cuts it short; a completed export wrote a header that lists
\* allHeaders in ascending order, then one line per consolidated row, in
\* order, with one cell per column: the row's value, or an empty cell.
C7_ExportedFile ==
    /\ (pc = "done" /\ outcome = "ExportFailure" /\ KeysWithinColumnSet) =>
           (~outputFile.exists \/ Len(outputFile.lines) < Len(consolidatedData))
    /\ (pc = "done" /\ outcome = "Exported") =>
        LET header == outputFile.header
            lines == outputFile.lines
        IN  /\ outputFile.exists
            /\ KeysWithinColumnSet
            /\ {header[j] : j \in 1..Len(header)} = allHeaders
            /\ \A i, j \in 1..Len(header) : i < j => StrLess(header[i], header[j])
            /\ Len(lines) = Len(consolidatedData)
            /\ \A i \in 1..Len(lines) :
                   /\ Len(lines[i]) = Len(header)
                   /\ \A j \in 1..Len(header) :
                          lines[i][j] = ValueText(consolidatedData[i], header[j])

\* C7 witness: an export of two columns or more with an empty cell in a line
C7_Witness ==
    /\ pc = "done"
    /\ outcome = "Exported"
    /\ Len(outputFile.header) >= 2
    /\ \E i \in 1..Len(outputFile.lines) : \E j \in 1..Len(outputFile.header) :
           outputFile.lines[i][j] = <<>>

\* C8: an output file exists, or the export step is reached, only when the
\* loop has handled every discovered file.
C8_NoOutputBeforeLoopEnds ==
    (outputFile.exists \/ pc = "exportResults" \/ outcome \in {"Exported", "ExportFailure"})
        => index = Len(csvFiles)

\* C8 witness: a file was written after a loop over two files or more
C8_Witness ==
    /\ outputFile.exists
    /\ Len(csvFiles) >= 2
    /\ errorCount >= 1

\* the read of the file the loop is about to handle fails or brings no row
NextReadFails ==
    LET file == FileAt(csvFiles[index + 1])
        read == readCsvFile(file)
    IN  file.kind \in {"raises", "blank"} \/ ~read.success \/ read.data = <<>>

\* C9: a step of the loop on a file whose read fails leaves the rows and
\* allHeaders as they are, adds one to errorCount, appends the file's name to
\* errorFiles, and stays in the loop.
C9_FailureIsSkipped ==
    [][(pc = "consolidateFiles" /\ index < Len(csvFiles) /\ index' = index + 1
        /\ NextReadFails)
       => /\ consolidatedData' = consolidatedData
          /\ allHeaders' = allHeaders
          /\ errorCount' = errorCount + 1
          /\ processedCount' = processedCount
          /\ errorFiles' = errorFiles \o <<csvFiles[index + 1][Len(csvFiles[index + 1])]>>
          /\ pc' = "consolidateFiles"
          /\ outcome' = "running"]_vars

\* C9 witness: a file was ingested after another one had failed
C9_Witness ==
    /\ pc = "consolidateFiles"
    /\ index >= 2
    /\ ~IngestedFile(index - 1)
    /\ IngestedFile(index)
    /\ errorCount >= 1
    /\ consolidatedData # <<>>

\* C10: DiscoveryEmpty, UserCancelled and NoValidData each end the run with
\* no export attempted and no output file, each in its own case; export is
\* attempted only with files found, the loop over and rows consolidated.
C10_TerminalCases ==
    /\ outcome \in {"DiscoveryEmpty", "UserCancelled", "NoValidData"} =>
           /\ pc = "done"
           /\ ~outputFile.exists
    /\ outcome = "DiscoveryEmpty" => csvFiles = <<>>
    /\ outcome = "UserCancelled" => csvFiles # <<>> /\ index = 0
    /\ outcome = "NoValidData" =>
           /\ csvFiles # <<>>
           /\ index = Len(csvFiles)
           /\ consolidatedData = <<>>
           /\ \A i \in 1..Len(csvFiles) : ~IngestedFile(i)
    /\ (pc = "exportResults" \/ outcome \in {"Exported", "ExportFailure"}) =>
           /\ csvFiles # <<>>
           /\ index = Len(csvFiles)
           /\ consolidatedData # <<>>

\* C10 witness: every one of two or more discovered files failed
C10_Witness ==
    /\ outcome = "NoValidData"
    /\ Len(csvFiles) >= 2
    /\ ~outputFile.exists

\* findCsvFiles has run: the run is past it, and was not interrupted before
\* it (a run interrupted later has found files)
Discovered ==
    /\ pc # "findCsvFiles"
    /\ outcome = "Interrupted" => csvFiles # <<>>

\* the path as one string below sourceDirectory: os.path.join of its
\* components.  The directory is a common prefix of every full path and
\* does not change their order.
RECURSIVE FullPath(_)
FullPath(path) ==
    IF Len(path) = 1 THEN Head(path)
    ELSE Head(path) \o <<"/">> \o FullPath(Tail(path))

\* C11: the discovered sequence is ascending by full path string.
C11_SortedByFullPathString ==
    Discovered =>
        \A i, j \in 1..Len(csvFiles) :
            i < j => StrLess(FullPath(csvFiles[i]), FullPath(csvFiles[j]))

\* C11 as amended: the discovered sequence is ascending in the order of Path
\* objects, which compares the components one by one; without recursion,
\* where every path is a single component, that is the order of the full
\* path strings.
C11_SortedByPathComponents ==
    Discovered =>
        /\ \A i, j \in 1..Len(csvFiles) :
               i < j => PathLess(csvFiles[i], csvFiles[j])
        /\ ~includeSubdirectories =>
               \A i, j \in 1..Len(csvFiles) :
                   i < j => StrLess(FullPath(csvFiles[i]), FullPath(csvFiles[j]))

\* C11 witness: a recursive discovery returned files of different depths
C11_Witness ==
    /\ pc = "confirm"
    /\ includeSubdirectories
    /\ Len(csvFiles) >= 2
    /\ \E i, j \in 1..Len(csvFiles) : Len(csvFiles[i]) < Len(csvFiles[j])

\* the discovered paths as a set
DiscoveredSet == {csvFiles[i] : i \in 1..Len(csvFiles)}

\* the files of the tree, at any depth, whose name the pattern "*.csv" matches
MatchingFiles == {e.path : e \in {x \in tree : MatchesCsv(x.path[Len(x.path)])}}

\* without recursion only matching direct children of the root are returned
OnlyDirectChildren ==
    (Discovered /\ ~includeSubdirectories) =>
        \A p \in DiscoveredSet : Len(p) = 1 /\ p \in MatchingFiles

\* the result without recursion is within the result with recursion, for
\* the same root
NonRecursiveWithinRecursive ==
    (Discovered /\ ~includeSubdirectories) => DiscoveredSet \subseteq Glob(TRUE)

\* with recursion the matching files of every depth are returned
AllDepthsReturned ==
    (Discovered /\ includeSubdirectories) => DiscoveredSet = MatchingFiles

\* C12: without recursion discovery returns only matching direct children of
\* the root; with recursion it returns the matching files at every depth; the
\* former result is a subset of the latter.
C12_RecursionAndDepth ==
    /\ OnlyDirectChildren
    /\ AllDepthsReturned
    /\ NonRecursiveWithinRecursive

\* C13: processedCount + errorCount is the number of files the loop has
\* handled, errorCount is the length of errorFiles, processedCount is the
\* number of handled files that brought at least one row; once the loop is
\* over, processedCount + errorCount is the number of discovered files.
C13_Counters ==
    /\ processedCount + errorCount = index
    /\ errorCount = Len(errorFiles)
    /\ processedCount = Cardinality({i \in 1..index : ReadOf(i).data # <<>>})
    /\ AggregationComplete => processedCount + errorCount = Len(csvFiles)

\* C13 witness: the loop is over three files or more, some ingested and some not
C13_Witness ==
    /\ pc = "checkDuplicates"
    /\ Len(csvFiles) >= 3
    /\ processedCount >= 1
    /\ errorCount >= 1

====
